---- MODULE Spec2Model ----
(***************************************************************************)
(* Model of the `sign` command of c2patool (src/commands/sign.rs):         *)
(* Sign::validate (output planning), Sign::execute (orchestration) and     *)
(* Sign::sign_file (manifest assembly, signer selection, embedding).       *)
(*                                                                         *)
(* Strings are tuples of one-character strings, so that prefix tests,      *)
(* concatenation and case folding are computed.  A path is a sequence of   *)
(* components; a component is a record [stem, ext] whose ext is the        *)
(* extension (<<>> when the component has none).                           *)
(***************************************************************************)
EXTENDS Integers, Sequences, FiniteSets, TLC

\* ------------------------------------------------------------------ bounds
MaxInputs == 2
MaxIngredients == 1
\* declared ingredients in the runs that observe the order of assembly
MaxDeclared == 2

\* ----------------------------------------------------------------- strings
RECURSIVE starts_with(_, _)
starts_with(s, prefix) ==
    IF prefix = <<>> THEN TRUE
    ELSE IF s = <<>> THEN FALSE
    ELSE Head(s) = Head(prefix) /\ starts_with(Tail(s), Tail(prefix))

to_lowercase_char(c) ==
    CASE c = "A" -> "a" [] c = "C" -> "c" [] c = "E" -> "e" [] c = "F" -> "f"
      [] c = "G" -> "g" [] c = "I" -> "i" [] c = "J" -> "j" [] c = "N" -> "n"
      [] c = "P" -> "p" [] c = "T" -> "t"
      [] OTHER -> c

to_lowercase(s) == [i \in 1..Len(s) |-> to_lowercase_char(s[i])]

\* ------------------------------------------------------------------- paths
Comp(stem, ext) == [stem |-> stem, ext |-> ext]

\* the component `..`, which std::path reports as having no file name
ParentDir == Comp("..", <<>>)

Jpg == <<"j", "p", "g">>
JpegUpper == <<"J", "P", "E", "G">>
C2paExt == <<"c", "2", "p", "a">>

has_file_name(path) == path # <<>> /\ path[Len(path)] # ParentDir

file_name(path) == path[Len(path)]

join(path, comp) == Append(path, comp)

\* PathBuf::set_extension: no effect on a path without a file name
set_extension(path, ext) ==
    IF has_file_name(path)
    THEN [path EXCEPT ![Len(path)] = Comp(@.stem, ext)]
    ELSE path

extension(path) == IF has_file_name(path) THEN file_name(path).ext ELSE <<>>

ext_normal_mut_nofold(path) ==
    LET ext == extension(path)
    IN  IF ext = <<"j", "p", "e", "g">> THEN Jpg
        ELSE IF ext = <<"t", "i", "f", "f">> THEN <<"t", "i", "f">>
        ELSE ext

\* lines 368-380
ext_normal(path) ==
    LET ext == to_lowercase(extension(path))
    IN  IF ext = <<"j", "p", "e", "g">> THEN Jpg
        ELSE IF ext = <<"t", "i", "f", "f">> THEN <<"t", "i", "f">>
        ELSE ext

\* ------------------------------------------------------------- file system
\* fs maps every existing path to what is stored there.
DirEntry == [kind |-> "dir", from |-> 0, state |-> "dir"]
OldFile == [kind |-> "file", from |-> 0, state |-> "old"]
Written(i, state) == [kind |-> "file", from |-> i, state |-> state]

exists(f, path) == path \in DOMAIN f
is_dir(f, path) == path \in DOMAIN f /\ f[path].kind = "dir"

write(f, path, entry) == [p \in DOMAIN f \cup {path} |-> IF p = path THEN entry ELSE f[p]]

\* ------------------------------------------------------ Sign::validate
PlanOk(dir, mkdir) ==
    [kind |-> "ok", dir |-> dir, msg |-> "", n |-> 0, m |-> 0, mkdir |-> mkdir]
PlanErr(msg, n, m) ==
    [kind |-> "err", dir |-> FALSE, msg |-> msg, n |-> n, m |-> m, mkdir |-> FALSE]
PlanPanic == [kind |-> "panic", dir |-> FALSE, msg |-> "unwrap", n |-> 0, m |-> 0, mkdir |-> FALSE]

RECURSIVE count_existing_mut_nosidecar(_, _, _)
count_existing_mut_nosidecar(s, f, i) ==
    IF i > Len(s.paths) THEN 0
    ELSE (IF exists(f, join(s.output, file_name(s.paths[i]))) THEN 1 ELSE 0)
             + count_existing_mut_nosidecar(s, f, i + 1)

RECURSIVE count_existing_mut_per_input(_, _, _)
count_existing_mut_per_input(s, f, i) ==
    IF i > Len(s.paths) THEN 0
    ELSE LET output == join(s.output, file_name(s.paths[i]))
             a == exists(f, output)
             b == s.sidecar /\ exists(f, set_extension(output, C2paExt))
         IN  (IF a \/ b THEN 1 ELSE 0) + count_existing_mut_per_input(s, f, i + 1)

\* the loop of lines 286-301: the number of probed destinations that exist
RECURSIVE count_existing(_, _, _)
count_existing(s, f, i) ==
    IF i > Len(s.paths) THEN 0
    ELSE LET output == join(s.output, file_name(s.paths[i]))
             a == IF exists(f, output) THEN 1 ELSE 0
             b == IF s.sidecar /\ exists(f, set_extension(output, C2paExt)) THEN 1 ELSE 0
         IN  a + b + count_existing(s, f, i + 1)

num_outputs_of_mut_inputs(s) == Len(s.paths)

num_outputs_of(s) == IF s.sidecar THEN Len(s.paths) * 2 ELSE Len(s.paths)

arm_matches_mut_file_for_two(k, ex, dir, n) ==
    CASE k = 1 -> ex /\ ~dir /\ n >= 2
      [] k = 2 -> ex /\ dir /\ n >= 2
      [] k = 3 -> ex /\ ~dir /\ n = 1
      [] k = 4 -> ex /\ dir /\ n = 1
      [] k = 5 -> ~ex /\ ~dir /\ n >= 3
      [] k = 6 -> ~ex /\ ~dir /\ n \in {1, 2}
      [] k = 7 -> n = 0
      [] OTHER -> ~ex /\ dir

arm_matches_mut_overlap(k, ex, dir, n) ==
    CASE k = 1 -> ex /\ ~dir /\ n >= 2
      [] k = 2 -> ex /\ dir /\ n >= 2
      [] k = 3 -> ex /\ n = 1
      [] k = 4 -> ex /\ dir /\ n = 1
      [] k = 5 -> ~ex /\ ~dir /\ n >= 2
      [] k = 6 -> ~ex /\ ~dir /\ n = 1
      [] k = 7 -> n = 0
      [] OTHER -> ~ex /\ dir

\* the patterns of the match of line 276, in the order of its arms (lines
\* 278, 283, 315, 324, 339, 345, 358, 360)
arm_matches(k, ex, dir, n) ==
    CASE k = 1 -> ex /\ ~dir /\ n >= 2
      [] k = 2 -> ex /\ dir /\ n >= 2
      [] k = 3 -> ex /\ ~dir /\ n = 1
      [] k = 4 -> ex /\ dir /\ n = 1
      [] k = 5 -> ~ex /\ ~dir /\ n >= 2
      [] k = 6 -> ~ex /\ ~dir /\ n = 1
      [] k = 7 -> n = 0
      [] OTHER -> ~ex /\ dir

Arms == 1..8

\* a match takes the first arm whose pattern matches
selected_arm(ex, dir, n) ==
    CHOOSE k \in Arms :
        /\ arm_matches(k, ex, dir, n)
        /\ \A j \in 1..(k - 1) : ~arm_matches(j, ex, dir, n)

validate(s, f) ==
    LET num_outputs == num_outputs_of(s)
        arm == selected_arm(exists(f, s.output), is_dir(f, s.output), num_outputs)
    IN  IF arm = 1 THEN
            PlanErr("Output path must be a folder if multiple inputs are specified", 0, 0)
        ELSE IF arm = 2 THEN
            IF ~s.force THEN
                IF \E i \in 1..Len(s.paths) : ~has_file_name(s.paths[i]) THEN PlanPanic
                ELSE LET cnt == count_existing(s, f, 1)
                     IN  IF cnt > 0
                         THEN PlanErr("paths already exist", cnt, num_outputs)
                         ELSE PlanOk(TRUE, FALSE)
            ELSE PlanOk(TRUE, FALSE)
        ELSE IF arm = 3 THEN
            IF ~s.force
            THEN PlanErr("Output path already exists", 0, 0)
            ELSE PlanOk(FALSE, FALSE)
        ELSE IF arm = 4 THEN
            IF ~s.force THEN
                IF ~has_file_name(s.paths[1]) THEN PlanPanic
                ELSE IF exists(f, join(s.output, file_name(s.paths[1])))
                THEN PlanErr("Output path {} already exists", 0, 0)
                ELSE PlanOk(TRUE, FALSE)
            ELSE PlanOk(TRUE, FALSE)
        ELSE IF arm = 5 THEN PlanOk(TRUE, TRUE)
        ELSE IF arm = 6 THEN
            IF ~s.sidecar /\ ext_normal(s.paths[1]) # ext_normal(s.output)
            THEN PlanErr("Manifest cannot be embedded if extensions do not match", 0, 0)
            ELSE PlanOk(FALSE, FALSE)
        ELSE IF arm = 7 THEN PlanErr("Input path not found", 0, 0)
        ELSE PlanPanic

create_dir_all_mut_noop(f, path) == f

\* line 341
create_dir_all(f, path) == write(f, path, DirEntry)

\* ------------------------------------------------ manifest (c2pa::Manifest)
\* Option values are sequences: <<>> is None, <<v>> is Some(v).
None == <<>>
Some(v) == <<v>>

RootDir == Comp("/", <<>>)
is_absolute(path) == path # <<>> /\ path[1] = RootDir

\* the process's current directory (env::current_dir)
current_dir == <<RootDir, Comp("cwd", <<>>)>>

JsonExt == <<"j", "s", "o", "n">>

\* env!("CARGO_PKG_NAME") / env!("CARGO_PKG_VERSION")
tool_generator == <<"c", "2", "p", "a", "t", "o", "o", "l", "/", "0">>

ReservedPrefix == <<"c", "2", "p", "a", "/">>

claim_generator_mut_prefix(generator) ==
    IF starts_with(generator, <<"c", "2", "p", "a">>)
    THEN tool_generator
    ELSE generator \o <<" ">> \o tool_generator

\* lines 176-180
claim_generator(generator) ==
    IF starts_with(generator, ReservedPrefix)
    THEN tool_generator
    ELSE generator \o <<" ">> \o tool_generator

Ingredient(origin, path, isParent, manifestData, base) ==
    [origin |-> origin, path |-> path, is_parent |-> isParent,
     manifest_data |-> manifestData, base |-> base]

\* Ingredient::from_file: an ingredient describing the asset at `path`
from_file(e, path) == Ingredient("file", path, FALSE, path \in e.manifested, None)

\* path.parent(): None for a path that ends in the root
parent_dir(path) ==
    IF path = <<>> \/ path[Len(path)] = RootDir THEN None
    ELSE Some(SubSeq(path, 1, Len(path) - 1))

\* lines 383-396: a .json ingredient takes its resource base from the
\* file's directory, anything else is read as an asset
load_ingredient(e, path) ==
    IF extension(path) = JsonExt
    THEN Ingredient("json", path, path \in e.parent_jsons, FALSE, parent_dir(path))
    ELSE from_file(e, path)

\* Manifest::parent(): the first ingredient flagged as parent
RECURSIVE parent_from(_, _)
parent_from(ingredients, k) ==
    IF k > Len(ingredients) THEN None
    ELSE IF ingredients[k].is_parent THEN Some(ingredients[k])
    ELSE parent_from(ingredients, k + 1)

parent(manifest) == parent_from(manifest.ingredients, 1)

add_ingredient(manifest, ingredient) ==
    [manifest EXCEPT !.ingredients = Append(@, ingredient)]

\* Manifest::set_parent: flags the ingredient and puts it first
set_parent(manifest, ingredient) ==
    [manifest EXCEPT !.ingredients = <<[ingredient EXCEPT !.is_parent = TRUE]>> \o @]

\* ------------------------------------------------------- Sign::sign_file
\* lines 161-165
from_path_or_url(manifest, manifest_url) ==
    IF manifest # None THEN [kind |-> "Path", url |-> ""]
    ELSE [kind |-> "Url", url |-> manifest_url[1]]

\* lines 182-189; canonicalize makes a relative path absolute
base_path_of(s) ==
    IF s.manifest_source.manifest # None
    THEN LET m == s.manifest_source.manifest[1]
         IN  parent_dir(IF is_absolute(m) THEN m ELSE current_dir \o m)
    ELSE Some(current_dir)

NoSigner == [kind |-> "none", reserve_size |-> 0, process |-> None, base |-> None]

\* state of one sign_file call: the first failing step, the steps taken so
\* far, the manifest and signing configuration under construction
Start ==
    [err |-> "", steps |-> <<>>,
     manifest |-> [claim_generator |-> <<>>, ingredients |-> <<>>, base_path |-> None,
                   mode |-> "embedded", remote_url |-> ""],
     sign_config |-> [base_path |-> None],
     signer |-> NoSigner]

\* a fallible step: skipped once the call has failed, failing when the
\* environment injects its fault
Try(st, label, fault) ==
    IF st.err # "" THEN st
    ELSE [st EXCEPT !.steps = Append(@, label),
                    !.err = IF fault = label THEN label ELSE ""]

\* a fallible step that also fails on `cond`
TryUnless(st, label, fault, cond) ==
    IF st.err # "" THEN st
    ELSE [st EXCEPT !.steps = Append(@, label),
                    !.err = IF fault = label \/ cond THEN label ELSE ""]

IngredientLabels == <<"ingredient_1", "ingredient_2", "ingredient_3", "ingredient_4">>

\* lines 195-212, one declared ingredient after the other
RECURSIVE add_ingredients(_, _, _, _, _)
add_ingredients(st, e, ingredients, k, fault) ==
    IF k > Len(ingredients) THEN st
    ELSE LET src == ingredients[k]
             base == st.manifest.base_path
             t == Try(st, IngredientLabels[k], fault)
             path == IF is_absolute(src.path) THEN src.path ELSE base[1] \o src.path
             ingredient ==
                 IF src.kind = "Ingredient"
                 THEN Ingredient("inline", None, src.is_parent, FALSE, base)
                 ELSE load_ingredient(e, path)
             u == IF t.err = ""
                  THEN [t EXCEPT !.manifest = add_ingredient(@, ingredient)]
                  ELSE t
         IN  add_ingredients(u, e, ingredients, k + 1, fault)

\* an infallible step
Note(st, label) == IF st.err # "" THEN st ELSE [st EXCEPT !.steps = Append(@, label)]

\* lines 166-180: the definition is resolved and parsed, the tool's tag is
\* put into the generator
parse_definition(st, e, fault) ==
    LET a == Try(st, "resolve", fault)
        b == Try(a, "sign_config_from_json", fault)
        c == Try(b, "parse_manifest", fault)
    IN  IF c.err # "" THEN c
        ELSE Note([c EXCEPT !.manifest.claim_generator =
                                claim_generator(e.json.claim_generator)],
                  "claim_generator")

\* lines 182-193
apply_base_path(st, s, fault) ==
    LET a == IF s.manifest_source.manifest # None
             THEN TryUnless(Try(st, "canonicalize", fault), "manifest_parent_path", fault,
                            base_path_of(s) = None)
             ELSE Try(st, "current_dir", fault)
        b == Try(a, "manifest_with_base_path", fault)
    IN  IF b.err # "" THEN b
        ELSE Note([b EXCEPT !.manifest.base_path = base_path_of(s),
                            !.sign_config.base_path = base_path_of(s)],
                  "sign_config_set_base_path")

\* lines 214-216
explicit_parent(st, s, e, fault) ==
    IF s.parent = None THEN st
    ELSE LET a == Try(st, "load_parent", fault)
             b == TryUnless(a, "set_parent", fault, parent(a.manifest) # None)
         IN  IF b.err # "" THEN b
             ELSE [b EXCEPT !.manifest = set_parent(@, load_ingredient(e, s.parent[1]))]

implicit_parent_mut_never(st, e, src, fault) ==
    IF st.err # "" \/ parent(st.manifest) # None THEN st
    ELSE Try(st, "source_ingredient", fault)

\* lines 220-225
implicit_parent(st, e, src, fault) ==
    IF st.err # "" \/ parent(st.manifest) # None THEN st
    ELSE LET a == Try(st, "source_ingredient", fault)
             source_ingredient == from_file(e, src)
         IN  IF a.err # "" \/ ~source_ingredient.manifest_data THEN a
             ELSE LET b == Try(a, "set_source_parent", fault)
                  IN  IF b.err # "" THEN b
                      ELSE [b EXCEPT !.manifest = set_parent(@, source_ingredient)]

embedding_mode_mut_swapped(st, s) ==
    LET input_source == from_path_or_url(s.manifest_source.manifest,
                                         s.manifest_source.manifest_url)
    IN  IF st.err # "" THEN st
        ELSE IF input_source.kind = "Path" THEN
            IF s.sidecar
            THEN Note([st EXCEPT !.manifest.mode = "sidecar"], "set_sidecar_manifest")
            ELSE st
        ELSE IF ~s.sidecar
        THEN Note([st EXCEPT !.manifest.mode = "remote",
                             !.manifest.remote_url = input_source.url],
                  "set_remote_manifest")
        ELSE Note([st EXCEPT !.manifest.mode = "embedded_remote_ref",
                             !.manifest.remote_url = input_source.url],
                  "set_embedded_manifest_with_remote_ref")

\* lines 227-241
embedding_mode(st, s) ==
    LET input_source == from_path_or_url(s.manifest_source.manifest,
                                         s.manifest_source.manifest_url)
    IN  IF st.err # "" THEN st
        ELSE IF input_source.kind = "Path" THEN
            IF s.sidecar
            THEN Note([st EXCEPT !.manifest.mode = "sidecar"], "set_sidecar_manifest")
            ELSE st
        ELSE IF s.sidecar
        THEN Note([st EXCEPT !.manifest.mode = "remote",
                             !.manifest.remote_url = input_source.url],
                  "set_remote_manifest")
        ELSE Note([st EXCEPT !.manifest.mode = "embedded_remote_ref",
                             !.manifest.remote_url = input_source.url],
                  "set_embedded_manifest_with_remote_ref")

select_signer_mut_default_reserve(st, s, fault) ==
    IF s.signer_path # None
    THEN LET a == Try(st, "callback_signer_config", fault)
         IN  IF a.err # "" THEN a
             ELSE [a EXCEPT !.signer = [kind |-> "callback", reserve_size |-> 20000,
                                        process |-> s.signer_path,
                                        base |-> a.sign_config.base_path]]
    ELSE LET a == Try(st, "sign_config_signer", fault)
         IN  IF a.err # "" THEN a
             ELSE [a EXCEPT !.signer = [kind |-> "builtin", reserve_size |-> 0,
                                        process |-> None,
                                        base |-> a.sign_config.base_path]]

\* lines 243-256
select_signer(st, s, fault) ==
    IF s.signer_path # None
    THEN LET a == Try(st, "callback_signer_config", fault)
         IN  IF a.err # "" THEN a
             ELSE [a EXCEPT !.signer = [kind |-> "callback", reserve_size |-> s.reserve_size,
                                        process |-> s.signer_path,
                                        base |-> a.sign_config.base_path]]
    ELSE LET a == Try(st, "sign_config_signer", fault)
         IN  IF a.err # "" THEN a
             ELSE [a EXCEPT !.signer = [kind |-> "builtin", reserve_size |-> 0,
                                        process |-> None,
                                        base |-> a.sign_config.base_path]]

\* lines 258-260
embed(st, fault) ==
    IF st.err # "" THEN st
    ELSE [st EXCEPT !.steps = Append(@, "embed"),
                    !.err = IF fault \in {"embed", "embed_partial"} THEN fault ELSE ""]

sign_file_mut_order(s, e, src, fault) ==
    LET a == parse_definition(Start, e, fault)
        b == apply_base_path(a, s, fault)
        c == explicit_parent(b, s, e, fault)
        d == IF c.err # "" THEN c ELSE add_ingredients(c, e, e.json.ingredients, 1, fault)
        f == implicit_parent(d, e, src, fault)
        g == embedding_mode(f, s)
        h == select_signer(g, s, fault)
    IN  embed(h, fault)

\* lines 159-263
sign_file(s, e, src, fault) ==
    LET a == parse_definition(Start, e, fault)
        b == apply_base_path(a, s, fault)
        c == IF b.err # "" THEN b ELSE add_ingredients(b, e, e.json.ingredients, 1, fault)
        d == explicit_parent(c, s, e, fault)
        f == implicit_parent(d, e, src, fault)
        g == embedding_mode(f, s)
        h == select_signer(g, s, fault)
    IN  embed(h, fault)

\* What Manifest::embed leaves on disk for input number i.  A successful
\* embedding writes the destination (and the .c2pa file next to it in
\* sidecar mode), replacing what was there.  A failing one changes nothing,
\* or leaves the copy of the asset it made at a destination that did not
\* exist.
embed_writes(f, s, i, dst, st) ==
    IF st.err = "" THEN
        IF s.sidecar
        THEN write(write(f, dst, Written(i, "asset")),
                   set_extension(dst, C2paExt), Written(i, "manifest"))
        ELSE write(f, dst, Written(i, "signed"))
    ELSE IF st.err = "embed_partial" /\ ~exists(f, dst)
    THEN write(f, dst, Written(i, "partial"))
    ELSE f

after_failure_mut_rollback(f, s) ==
    [p \in {q \in DOMAIN f : f[q].from = 0 /\ (q = s.output => f[q] # DirEntry)} |-> f[p]]

\* lines 142-149: a failure is logged and kept, nothing on disk is undone
after_failure(f, s) == f

\* ----------------------------------------------------------------- state
VARIABLES
    self,       \* the Sign arguments (lines 35-88), fixed for the run
    env,        \* what the run reads: the manifest definition, which assets
                \* carry manifest data, which faults can occur
    fs,         \* the file system under the output path
    pc,         \* position in Sign::execute
    plan,       \* what Sign::validate returned (is_output_dir, line 120)
    idx,        \* position of the loop of line 133 in self.paths
    errs,       \* line 132
    result,     \* what Sign::execute returned
    settings,   \* the process-wide c2pa settings
    calls,      \* history: the calls made by execute, in order
    attempts    \* history: one record per sign_file call

vars == <<self, env, fs, pc, plan, idx, errs, result, settings, calls, attempts>>

\* ---------------------------------------------------------------- inputs
RECURSIVE SeqsUpTo(_, _)
SeqsUpTo(S, n) ==
    IF n = 0 THEN {<<>>}
    ELSE LET shorter == SeqsUpTo(S, n - 1)
         IN  shorter \cup {Append(q, x) : q \in {r \in shorter : Len(r) = n - 1}, x \in S}

PathA == <<Comp("x", <<>>), Comp("a", Jpg)>>
PathA2 == <<Comp("y", <<>>), Comp("a", Jpg)>>
PathB == <<Comp("x", <<>>), Comp("b", JpegUpper)>>
PathUp == <<Comp("x", <<>>), ParentDir>>
InputPaths == {PathA, PathA2, PathB, PathUp}

OutPlain == <<Comp("out", <<>>)>>
OutJpg == <<Comp("o", Jpg)>>

ManifestPath == <<Comp("defs", <<>>), Comp("m", JsonExt)>>
ManifestUrl == "https://example.com/m.json"
FromFile == [manifest |-> Some(ManifestPath), manifest_url |-> None]
FromUrl == [manifest |-> None, manifest_url |-> Some(ManifestUrl)]

ParentAsset == <<Comp("parent", Jpg)>>
ParentJson == <<RootDir, Comp("p", JsonExt)>>
SignerExe == <<Comp("signer", <<>>)>>

Generators ==
    { <<"c", "2", "p", "a", "/", "u">>,        \* the library's default form
      <<"m", "y", "/", "1">>,
      <<"c", "2", "p", "a">>,
      <<"c", "2", "p", "a", "t", "o", "o", "l", "/", "0">> }

IngredientSources ==
    { [kind |-> "Ingredient", is_parent |-> FALSE, path |-> None],
      [kind |-> "Ingredient", is_parent |-> TRUE, path |-> None],
      [kind |-> "Path", is_parent |-> FALSE, path |-> <<Comp("i", Jpg)>>],
      [kind |-> "Path", is_parent |-> FALSE, path |-> ParentJson] }

PlanFaults == {"none", "parse_manifest", "embed", "embed_partial"}
AllFaults ==
    {"none", "resolve", "sign_config_from_json", "parse_manifest", "canonicalize",
     "current_dir", "manifest_with_base_path", "load_parent", "set_parent",
     "source_ingredient", "set_source_parent", "callback_signer_config",
     "sign_config_signer", "embed", "embed_partial"}
        \cup {IngredientLabels[k] : k \in 1..MaxIngredients}

\* every destination Sign::validate may probe under the output directory
Probed(paths, output, sidecar) ==
    LET named == {i \in 1..Len(paths) : has_file_name(paths[i])}
    IN  {join(output, file_name(paths[i])) : i \in named}
            \cup (IF sidecar
                  THEN {set_extension(join(output, file_name(paths[i])), C2paExt) : i \in named}
                  ELSE {})

\* the file systems the run can start in: the output path is missing, a
\* file, or a directory holding any of the probed destinations
FileSystems(paths, output, sidecar) ==
    {<<>>, output :> OldFile}
        \cup {[p \in {output} \cup old |-> IF p = output THEN DirEntry ELSE OldFile] :
                 old \in SUBSET Probed(paths, output, sidecar)}

NoResult == [kind |-> "none", msg |-> "", n |-> 0, m |-> 0]
NoPlan == [kind |-> "none", dir |-> FALSE, msg |-> "", n |-> 0, m |-> 0, mkdir |-> FALSE]

InitRun ==
    /\ pc = "start"
    /\ plan = NoPlan
    /\ idx = 1
    /\ errs = <<>>
    /\ result = NoResult
    /\ settings = [trust |-> "unset", verify_after_sign |-> "unset"]
    /\ calls = <<>>
    /\ attempts = <<>>

\* runs that exercise the output planning: every input list, output kind,
\* flag combination and pre-existence pattern
Init ==
    /\ \E paths \in SeqsUpTo(InputPaths, MaxInputs), output \in {OutPlain, OutJpg},
          sidecar \in BOOLEAN, force \in BOOLEAN, signer_path \in {None, Some(SignerExe)},
          no_verify \in BOOLEAN :
          /\ self = [paths |-> paths, output |-> output, sidecar |-> sidecar,
                     force |-> force, parent |-> None, signer_path |-> signer_path,
                     no_verify |-> no_verify, reserve_size |-> 20000,
                     manifest_source |-> FromFile, trust |-> "anchors"]
          /\ fs \in FileSystems(paths, output, sidecar)
    /\ env = [json |-> [claim_generator |-> <<"c", "2", "p", "a", "/", "u">>,
                        ingredients |-> <<>>],
              manifested |-> {}, parent_jsons |-> {ParentJson}, faults |-> PlanFaults]
    /\ InitRun

\* runs that exercise the manifest assembly: every parent, signer and
\* manifest source, with a definition that varies in its generator or in
\* its ingredients
InitAssemble ==
    /\ \E paths \in {<<PathA>>, <<PathA, PathB>>}, sidecar \in BOOLEAN,
          parent_arg \in {None, Some(ParentAsset)},
          signer \in {<<None, 20000>>, <<Some(SignerExe), 20000>>, <<Some(SignerExe), 1024>>},
          manifest_source \in {FromFile, FromUrl} :
          self = [paths |-> paths, output |-> OutJpg, sidecar |-> sidecar,
                  force |-> FALSE, parent |-> parent_arg, signer_path |-> signer[1],
                  no_verify |-> FALSE, reserve_size |-> signer[2],
                  manifest_source |-> manifest_source, trust |-> "anchors"]
    /\ \E generator \in Generators,
          ingredients \in SeqsUpTo(IngredientSources, MaxIngredients),
          manifested \in SUBSET {PathA} :
          /\ generator = <<"c", "2", "p", "a", "/", "u">> \/ ingredients = <<>>
          /\ env = [json |-> [claim_generator |-> generator, ingredients |-> ingredients],
                    manifested |-> manifested, parent_jsons |-> {ParentJson},
                    faults |-> AllFaults]
    /\ fs = <<>>
    /\ InitRun

\* runs that observe the order of the assembly: one input, up to
\* MaxDeclared declared ingredients, with or without --parent, and a fault
\* at any step
InitOrder ==
    /\ \E parent_arg \in {None, Some(ParentAsset)}, manifest_source \in {FromFile, FromUrl} :
          self = [paths |-> <<PathA>>, output |-> OutJpg, sidecar |-> FALSE,
                  force |-> FALSE, parent |-> parent_arg, signer_path |-> None,
                  no_verify |-> FALSE, reserve_size |-> 20000,
                  manifest_source |-> manifest_source, trust |-> "anchors"]
    /\ \E ingredients \in SeqsUpTo(IngredientSources, MaxDeclared),
          manifested \in SUBSET {PathA} :
          env = [json |-> [claim_generator |-> <<"c", "2", "p", "a", "/", "u">>,
                           ingredients |-> ingredients],
                 manifested |-> manifested, parent_jsons |-> {ParentJson},
                 faults |-> AllFaults \cup {IngredientLabels[k] : k \in 1..MaxDeclared}]
    /\ fs = <<>>
    /\ InitRun

\* the extensions the planner compares: the two aliased pairs and an
\* unaliased one in several spellings, and no extension at all
Extensions ==
    { <<>>, Jpg, <<"J", "P", "G">>, <<"J", "p", "g">>,
      <<"j", "p", "e", "g">>, JpegUpper, <<"J", "p", "E", "g">>,
      <<"t", "i", "f">>, <<"T", "I", "F">>, <<"t", "i", "f", "f">>,
      <<"T", "I", "F", "F">>, <<"T", "i", "F", "f">>,
      <<"p", "n", "g">>, <<"P", "N", "G">> }

\* runs that reach the extension check of lines 347-353: one input, an
\* output path that does not exist, no sidecar
InitExt ==
    /\ \E input_ext \in Extensions, output_ext \in Extensions :
          self = [paths |-> <<<<Comp("x", <<>>), Comp("a", input_ext)>>>>,
                  output |-> <<Comp("o", output_ext)>>, sidecar |-> FALSE,
                  force |-> FALSE, parent |-> None, signer_path |-> None,
                  no_verify |-> FALSE, reserve_size |-> 20000,
                  manifest_source |-> FromFile, trust |-> "anchors"]
    /\ env = [json |-> [claim_generator |-> <<"c", "2", "p", "a", "/", "u">>,
                        ingredients |-> <<>>],
              manifested |-> {}, parent_jsons |-> {ParentJson}, faults |-> PlanFaults]
    /\ fs = <<>>
    /\ InitRun

\* --------------------------------------------------------- Sign::execute
Ok == [kind |-> "ok", msg |-> "", n |-> 0, m |-> 0]
Err(msg, n, m) == [kind |-> "err", msg |-> msg, n |-> n, m |-> m]

\* line 120, the `?`: only a plan lets execute go on
after_validate_mut_ignore(r) == IF r.kind = "panic" THEN "panicked" ELSE "validated"

after_validate(r) ==
    CASE r.kind = "ok" -> "validated"
      [] r.kind = "err" -> "done"
      [] OTHER -> "panicked"

\* line 122, the `?`: a failed load ends the run
after_load_trust_mut_ignore(loaded) == "trusted"

after_load_trust(loaded) == IF loaded THEN "trusted" ELSE "done"

\* lines 152-154
failure_report_mut_outputs(failed, s) ==
    Err("Failed to sign assets", Len(failed), num_outputs_of(s))

failure_report(failed, s) == Err("Failed to sign assets", Len(failed), Len(s.paths))

\* line 120: the planner runs, creating the output directory where the
\* plan says so; its error ends the run
Validate ==
    /\ pc = "start"
    /\ LET r == validate(self, fs)
       IN  /\ plan' = r
           /\ fs' = IF r.mkdir THEN create_dir_all(fs, self.output) ELSE fs
           /\ pc' = after_validate(r)
           /\ result' = IF r.kind = "err" THEN Err(r.msg, r.n, r.m) ELSE result
    /\ calls' = Append(calls, "validate")
    /\ UNCHANGED <<self, env, idx, errs, settings, attempts>>

\* line 122
LoadTrust ==
    /\ pc = "validated"
    /\ calls' = Append(calls, "load_trust_settings")
    /\ \E loaded \in BOOLEAN :
          /\ pc' = after_load_trust(loaded)
          /\ IF loaded
             THEN /\ settings' = [settings EXCEPT !.trust = self.trust]
                  /\ UNCHANGED result
             ELSE /\ result' = Err("trust settings", 0, 0)
                  /\ UNCHANGED settings
    /\ UNCHANGED <<self, env, fs, plan, idx, errs, attempts>>

\* lines 124-128
LoadSettings ==
    /\ pc = "trusted"
    /\ settings' = [settings EXCEPT !.verify_after_sign =
                                        IF ~self.no_verify THEN "true" ELSE "false"]
    /\ calls' = Append(calls, "load_settings_from_str")
    /\ pc' = "loop"
    /\ UNCHANGED <<self, env, fs, plan, idx, errs, result, attempts>>

\* lines 134-140
destination(s, is_output_dir, src) ==
    IF is_output_dir THEN join(s.output, file_name(src)) ELSE s.output

\* lines 133-150, one iteration: the unwrap of line 137 panics on an input
\* without a file name, otherwise the input is signed and a failure is kept
SignNext ==
    /\ pc = "loop"
    /\ idx <= Len(self.paths)
    /\ LET src == self.paths[idx]
       IN  IF plan.dir /\ ~has_file_name(src)
           THEN /\ pc' = "panicked"
                /\ UNCHANGED <<fs, idx, errs, calls, attempts>>
           ELSE \E fault \in env.faults :
                   LET dst == destination(self, plan.dir, src)
                       st == sign_file(self, env, src, fault)
                       written == embed_writes(fs, self, idx, dst, st)
                   IN  /\ fs' = IF st.err # "" THEN after_failure(written, self) ELSE written
                       /\ errs' = IF st.err # "" THEN Append(errs, st.err) ELSE errs
                       /\ attempts' = Append(attempts,
                                             [i |-> idx, src |-> src, dst |-> dst, st |-> st])
                       /\ calls' = Append(calls, "sign_file")
                       /\ idx' = idx + 1
                       /\ pc' = pc
    /\ UNCHANGED <<self, env, plan, result, settings>>

\* lines 152-156
Finish ==
    /\ pc = "loop"
    /\ idx > Len(self.paths)
    /\ result' = IF errs # <<>> THEN failure_report(errs, self) ELSE Ok
    /\ pc' = "done"
    /\ UNCHANGED <<self, env, fs, plan, idx, errs, settings, calls, attempts>>

Next == Validate \/ LoadTrust \/ LoadSettings \/ SignNext \/ Finish

Spec == Init /\ [][Next]_vars

SpecAssemble == InitAssemble /\ [][Next]_vars

SpecExt == InitExt /\ [][Next]_vars

SpecOrder == InitOrder /\ [][Next]_vars

\* ================================================================ claims
AllNamed(paths) == \A i \in 1..Len(paths) : has_file_name(paths[i])

\* The decision table of the output planner, row by row: the outcome for
\* (outputExists, outputIsDirectory, effectiveOutputCount), with N the
\* number of probed destinations (per input, plus the sidecar variant when
\* sidecar is enabled) that pre-exist and M the effective output count.
TableOutcome(s, f) ==
    LET outputExists == s.output \in DOMAIN f
        outputIsDirectory == outputExists /\ f[s.output] = DirEntry
        effectiveOutputCount == Len(s.paths) * (IF s.sidecar THEN 2 ELSE 1)
        dest(i) == s.output \o <<s.paths[i][Len(s.paths[i])]>>
        sidecarOf(i) == s.output \o <<Comp(s.paths[i][Len(s.paths[i])].stem, C2paExt)>>
        preExisting == {<<i, "asset">> : i \in {j \in 1..Len(s.paths) : dest(j) \in DOMAIN f}}
                           \cup {<<i, "sidecar">> :
                                    i \in {j \in 1..Len(s.paths) :
                                               s.sidecar /\ sidecarOf(j) \in DOMAIN f}}
        N == Cardinality(preExisting)
    IN  CASE effectiveOutputCount = 0 ->
                PlanErr("Input path not found", 0, 0)
          [] outputExists /\ ~outputIsDirectory /\ effectiveOutputCount >= 2 ->
                PlanErr("Output path must be a folder if multiple inputs are specified", 0, 0)
          [] outputExists /\ outputIsDirectory /\ effectiveOutputCount >= 2 ->
                IF ~s.force /\ N > 0
                THEN PlanErr("paths already exist", N, effectiveOutputCount)
                ELSE PlanOk(TRUE, FALSE)
          [] outputExists /\ ~outputIsDirectory /\ effectiveOutputCount = 1 ->
                IF s.force THEN PlanOk(FALSE, FALSE)
                ELSE PlanErr("Output path already exists", 0, 0)
          [] outputExists /\ outputIsDirectory /\ effectiveOutputCount = 1 ->
                IF ~s.force /\ dest(1) \in DOMAIN f
                THEN PlanErr("Output path {} already exists", 0, 0)
                ELSE PlanOk(TRUE, FALSE)
          [] ~outputExists /\ effectiveOutputCount >= 2 ->
                PlanOk(TRUE, TRUE)
          [] ~outputExists /\ effectiveOutputCount = 1 ->
                IF ~s.sidecar /\ ext_normal(s.paths[1]) # ext_normal(s.output)
                THEN PlanErr("Manifest cannot be embedded if extensions do not match", 0, 0)
                ELSE PlanOk(FALSE, FALSE)

C2_NeverSilentlyOverwrite ==
    [][(pc = "start" /\ plan'.kind = "ok" /\ ~self.force)
          => \A i \in 1..Len(self.paths) :
                (plan'.dir => has_file_name(self.paths[i]))
                   => LET d == destination(self, plan'.dir, self.paths[i])
                      IN  /\ ~exists(fs, d)
                          /\ self.sidecar => ~exists(fs, set_extension(d, C2paExt))]_vars

\* planning succeeded without force on an existing directory, with sidecar
C2_Witness ==
    /\ pc = "validated"
    /\ plan.kind = "ok"
    /\ plan.dir
    /\ ~plan.mkdir
    /\ ~self.force
    /\ self.sidecar
    /\ Len(self.paths) = 2


Count(label) == Cardinality({k \in 1..Len(calls) : calls[k] = label})

\* planning and the loading of the settings have succeeded
LoopEntered == settings.verify_after_sign # "unset"

Distinct(paths) == \A i, j \in 1..Len(paths) : paths[i] = paths[j] => i = j

\* C3: once planning and settings loading have succeeded, Sign::execute
\* attempts every input exactly once and in declaration order, whatever
\* happened to earlier inputs: when the run is over every input has been
\* attempted, and the k-th attempt is the k-th input.
C3_EveryInputAttemptedOnce ==
    /\ \A k \in 1..Len(attempts) :
          attempts[k].i = k /\ attempts[k].src = self.paths[k]
    /\ (LoopEntered /\ pc \in {"done", "panicked"}) => Len(attempts) = Len(self.paths)

FailedAttempts == {k \in 1..Len(attempts) : attempts[k].st.err # ""}

\* C4: after all inputs are processed, Sign::execute returns failure if and
\* only if at least one sign_file failed, and the failure reports
\* failedCount/totalCount with failedCount the number of inputs whose
\* signing failed and totalCount the number of inputs.
C4_AggregateResult ==
    (LoopEntered /\ pc = "done")
        => /\ result.kind \in {"ok", "err"}
           /\ result.kind = "err" <=> FailedAttempts # {}
           /\ result.kind = "err"
                 => /\ result.n = Cardinality(FailedAttempts)
                    /\ result.m = Len(self.paths)

\* one input, signed by an external process, whose embedding failed: 1/1,
\* with two effective outputs
C4_Witness ==
    /\ LoopEntered
    /\ pc = "done"
    /\ Len(self.paths) = 1
    /\ self.sidecar
    /\ attempts[1].st.err = "embed"
    /\ attempts[1].st.signer.kind = "callback"
    /\ result.n = 1
    /\ result.m = 1

\* C5: the planner is invoked exactly once per run, before any input is
\* processed; if it returns an error the run ends with that error and
\* sign_file is never called.
C5_PlannerOnceUpFront ==
    /\ Count("validate") <= 1
    /\ pc # "start" => (Count("validate") = 1 /\ calls[1] = "validate")
    /\ attempts # <<>> => plan.kind = "ok"
    /\ plan.kind = "err"
          => /\ pc = "done"
             /\ result = Err(plan.msg, plan.n, plan.m)
             /\ attempts = <<>>
             /\ Count("sign_file") = 0

\* the planner refused a run that has inputs
C5_Witness ==
    /\ plan.kind = "err"
    /\ pc = "done"
    /\ Len(self.paths) = 2

\* C6: for N >= 2 (distinct) inputs, an output path that is an existing
\* empty directory, force not set and sidecar not set: planning succeeds as
\* directory, every input's destination is the output directory joined
\* with the input's file name, and when every embedding succeeds the
\* directory ends up holding N outputs, one per input.
C6_OneOutputPerInput ==
    (/\ Len(self.paths) >= 2
     /\ Distinct(self.paths)
     /\ AllNamed(self.paths)
     /\ ~self.force
     /\ ~self.sidecar
     /\ pc # "start"
     /\ ~plan.mkdir
     /\ is_dir(fs, self.output)
     /\ \A p \in DOMAIN fs : fs[p] # OldFile)
        => /\ plan = PlanOk(TRUE, FALSE)
           /\ \A k \in 1..Len(attempts) :
                 attempts[k].dst = join(self.output, file_name(attempts[k].src))
           /\ (pc = "done" /\ Len(attempts) = Len(self.paths) /\ FailedAttempts = {})
                 => /\ Cardinality(DOMAIN fs \ {self.output}) = Len(self.paths)
                    /\ \A k \in 1..Len(attempts) :
                          /\ exists(fs, attempts[k].dst)
                          /\ fs[attempts[k].dst] = Written(k, "signed")

\* C7: the trust settings are loaded exactly once per run and before the
\* first sign_file call, no step of the per-input loop modifies them, and
\* if the load fails no input is signed.
C7_TrustLoadedOnce ==
    /\ [](/\ Count("load_trust_settings") <= 1
          /\ attempts # <<>>
                => /\ settings.trust = self.trust
                   /\ \E k \in 1..Len(calls) :
                         /\ calls[k] = "load_trust_settings"
                         /\ \A j \in 1..k : calls[j] # "sign_file"
          /\ result = Err("trust settings", 0, 0) => attempts = <<>>)
    /\ [][pc = "loop" => settings' = settings]_vars

\* two inputs were signed with the trust settings in place
C7_Witness ==
    /\ Len(attempts) = 2
    /\ settings.trust = "anchors"
    /\ Count("load_trust_settings") = 1

\* C8: no rollback: when sign_file fails for some input, the outputs
\* written for inputs that succeeded earlier in the run are left unchanged
\* and in place, and the output directory is not removed.
C8_NoRollback ==
    [][(/\ pc = "loop"
        /\ Len(attempts') > Len(attempts)
        /\ attempts'[Len(attempts')].st.err # "")
          => /\ \A k \in 1..Len(attempts) :
                   attempts[k].st.err = ""
                      => /\ exists(fs', attempts[k].dst)
                         /\ fs'[attempts[k].dst] = fs[attempts[k].dst]
             /\ is_dir(fs, self.output) => is_dir(fs', self.output)]_vars

\* the manifest of this attempt was assembled and handed to embed
Assembled(a) == a.st.steps # <<>> /\ a.st.steps[Len(a.st.steps)] = "embed"

SourceAsParent(a) == Some([from_file(env, a.src) EXCEPT !.is_parent = TRUE])

\* C9 as stated: if the source asset already contains manifest data and no
\* explicit parent is supplied, the assembled manifest's parent is the
\* ingredient derived from the source asset, for every manifest definition.
C9_ImplicitParentAlways ==
    \A k \in 1..Len(attempts) :
        (/\ Assembled(attempts[k])
         /\ attempts[k].src \in env.manifested
         /\ self.parent = None)
            => parent(attempts[k].st.manifest) = SourceAsParent(attempts[k])

\* a declared ingredient (inline or loaded from an ingredient .json) is
\* flagged as parent
DeclaredParent(manifest) ==
    \E j \in 1..Len(manifest.ingredients) :
        manifest.ingredients[j].is_parent /\ manifest.ingredients[j].origin # "file"

\* C9 (amended): if the source asset already contains manifest data, no
\* explicit parent is supplied and no declared ingredient is a parent, the
\* assembled manifest's parent is the ingredient derived from the source
\* asset.
C9_ImplicitParent ==
    \A k \in 1..Len(attempts) :
        (/\ Assembled(attempts[k])
         /\ attempts[k].src \in env.manifested
         /\ self.parent = None
         /\ ~DeclaredParent(attempts[k].st.manifest))
            => parent(attempts[k].st.manifest) = SourceAsParent(attempts[k])

\* a source with manifest data became the parent next to a declared
\* ingredient
C9_Witness ==
    \E k \in 1..Len(attempts) :
        /\ Assembled(attempts[k])
        /\ attempts[k].src \in env.manifested
        /\ self.parent = None
        /\ Len(env.json.ingredients) >= 1
        /\ ~DeclaredParent(attempts[k].st.manifest)
        /\ Len(attempts[k].st.manifest.ingredients) = Len(env.json.ingredients) + 1

\* what the generator of an assembled manifest has to be
ExpectedGenerator(generator) ==
    IF Len(generator) >= 5 /\ SubSeq(generator, 1, 5) = <<"c", "2", "p", "a", "/">>
    THEN <<"c", "2", "p", "a", "t", "o", "o", "l", "/", "0">>
    ELSE [i \in 1..(Len(generator) + 11) |->
             IF i <= Len(generator) THEN generator[i]
             ELSE IF i = Len(generator) + 1 THEN " "
             ELSE <<"c", "2", "p", "a", "t", "o", "o", "l", "/", "0">>[i - Len(generator) - 1]]

\* C10: for every input, whatever its position, the assembled generator is
\* the tool tag alone when the definition's generator starts with `c2pa/`,
\* and otherwise the definition's generator, one space and the tool tag:
\* the tag is added once per manifest and does not accumulate.
C10_Generator ==
    \A k \in 1..Len(attempts) :
        (\E j \in 1..Len(attempts[k].st.steps) : attempts[k].st.steps[j] = "claim_generator")
            => attempts[k].st.manifest.claim_generator
                   = ExpectedGenerator(env.json.claim_generator)

\* the second input of a run got its generator from a definition that does
\* not use the reserved prefix
C10_Witness ==
    /\ Len(attempts) = 2
    /\ Assembled(attempts[1])
    /\ Assembled(attempts[2])
    /\ env.json.claim_generator = <<"c", "2", "p", "a", "t", "o", "o", "l", "/", "0">>


\* a later input failed, leaving a partial file of its own, after an
\* earlier one had been written into the directory the planner created
C8_Witness ==
    /\ Len(attempts) = 2
    /\ plan.mkdir
    /\ attempts[1].st.err = ""
    /\ attempts[2].st.err = "embed_partial"
    /\ exists(fs, attempts[1].dst)
    /\ fs[attempts[2].dst] = Written(2, "partial")


MatchingArms(ex, dir, n) == {k \in Arms : arm_matches(k, ex, dir, n)}

\* C13 as stated: every triple (outputExists, outputIsDirectory,
\* effectiveOutputCount >= 0) matches exactly one row of the planner's
\* decision table.
C13_EveryTripleOneRow ==
    \A ex \in BOOLEAN, dir \in BOOLEAN, n \in 0..(2 * Len(self.paths)) :
        Cardinality(MatchingArms(ex, dir, n)) = 1

\* C13 (amended): every triple that a file system can produce (a path that
\* is a directory exists) matches exactly one row, the triple of the run
\* among them, so that the row taken does not depend on the order of the
\* rows.
C13_RowsExclusive ==
    /\ \A ex \in BOOLEAN, dir \in BOOLEAN, n \in 0..(2 * Len(self.paths)) :
          (dir => ex) => Cardinality(MatchingArms(ex, dir, n)) = 1
    /\ MatchingArms(exists(fs, self.output), is_dir(fs, self.output), num_outputs_of(self))
          = {selected_arm(exists(fs, self.output), is_dir(fs, self.output),
                          num_outputs_of(self))}

\* the planner took the no-input row although the output is a directory
C13_Witness ==
    /\ pc = "done"
    /\ plan.msg = "Input path not found"
    /\ is_dir(fs, self.output)


\* C14: whenever Sign::execute computes a directory-layout destination, the
\* file name of that input has been established by Sign::validate: no input
\* list that the planner accepted as a directory layout holds an input
\* without a file name, and the unwrap of line 137 does not fail.
C14_UnwrapCannotFail ==
    /\ (plan.kind = "ok" /\ plan.dir) => AllNamed(self.paths)
    /\ ~(pc = "panicked" /\ plan.kind = "ok")

ModeSteps ==
    {"set_sidecar_manifest", "set_remote_manifest", "set_embedded_manifest_with_remote_ref"}

StepsOf(a) == {a.st.steps[j] : j \in 1..Len(a.st.steps)}

\* C11: the embedding mode of the assembled manifest is determined by the
\* kind of the definition source and the sidecar flag alone.  A local file
\* with sidecar gives a sidecar-only manifest; a URL with sidecar gives a
\* remote manifest referencing that URL; a URL without sidecar gives an
\* embedded manifest with a remote reference to that URL; a local file
\* without sidecar keeps the default embedded mode and no mode-setting call
\* is made.
C11_EmbeddingMode ==
    \A k \in 1..Len(attempts) :
        LET a == attempts[k]
            m == a.st.manifest
            local == self.manifest_source.manifest # None
            set == StepsOf(a) \cap ModeSteps
        IN  Assembled(a) =>
                /\ (local /\ self.sidecar) =>
                       m.mode = "sidecar" /\ set = {"set_sidecar_manifest"}
                /\ (~local /\ self.sidecar) =>
                       /\ m.mode = "remote"
                       /\ m.remote_url = self.manifest_source.manifest_url[1]
                       /\ set = {"set_remote_manifest"}
                /\ (~local /\ ~self.sidecar) =>
                       /\ m.mode = "embedded_remote_ref"
                       /\ m.remote_url = self.manifest_source.manifest_url[1]
                       /\ set = {"set_embedded_manifest_with_remote_ref"}
                /\ (local /\ ~self.sidecar) =>
                       m.mode = "embedded" /\ set = {}

\* a definition fetched from a URL was embedded with a remote reference
C11_Witness ==
    \E k \in 1..Len(attempts) :
        /\ Assembled(attempts[k])
        /\ self.manifest_source.manifest_url # None
        /\ ~self.sidecar
        /\ attempts[k].st.manifest.mode = "embedded_remote_ref"

SignerSteps == {"callback_signer_config", "sign_config_signer"}

\* the number of positions of the step list that hold a label of S
Occurrences(steps, S) == Cardinality({j \in 1..Len(steps) : steps[j] \in S})

\* C17: every input gets exactly one signer, constructed for that input: a
\* callback signer that runs the configured executable and carries the
\* declared reserve size if and only if a signer path is configured, the
\* built-in signer of the signing configuration otherwise.  Every call of
\* sign_file makes its own construction call, none is reused for a later
\* input.
C17_SignerPerInput ==
    \A k \in 1..Len(attempts) :
        LET a == attempts[k]
        IN  /\ Occurrences(a.st.steps, SignerSteps) <= 1
            /\ Assembled(a) =>
                  /\ Occurrences(a.st.steps, SignerSteps) = 1
                  /\ IF self.signer_path # None
                     THEN /\ "callback_signer_config" \in StepsOf(a)
                          /\ a.st.signer.kind = "callback"
                          /\ a.st.signer.reserve_size = self.reserve_size
                          /\ a.st.signer.process = self.signer_path
                     ELSE /\ "sign_config_signer" \in StepsOf(a)
                          /\ a.st.signer.kind = "builtin"
                          /\ a.st.signer.process = None

\* two inputs were each given a callback signer with the declared reserve
C17_Witness ==
    /\ Len(attempts) = 2
    /\ self.reserve_size = 1024
    /\ \A k \in 1..2 :
          /\ Assembled(attempts[k])
          /\ attempts[k].st.signer.kind = "callback"
          /\ attempts[k].st.signer.reserve_size = 1024


\* the letters of the extensions above, as (lower case, upper case) pairs
CasePairs ==
    { <<"a", "A">>, <<"c", "C">>, <<"e", "E">>, <<"f", "F">>, <<"g", "G">>,
      <<"i", "I">>, <<"j", "J">>, <<"n", "N">>, <<"p", "P">>, <<"t", "T">> }

SameLetter(c, d) == c = d \/ <<c, d>> \in CasePairs \/ <<d, c>> \in CasePairs

\* two extensions that differ at most in the case of their letters
SameIgnoringCase(x, y) ==
    Len(x) = Len(y) /\ \A i \in 1..Len(x) : SameLetter(x[i], y[i])

Normalized(path) == set_extension(path, ext_normal(path))

\* C12: ext_normal is case-insensitive and idempotent.  Two paths whose
\* extensions differ only in letter case normalize to the same value (and
\* so pass the extension check of the planner); jpeg and jpg in any
\* spelling both normalize to jpg, tiff and tif both to tif; normalizing a
\* path that carries an already normalized extension returns that extension.
C12_ExtNormal ==
    LET input == self.paths[1]
        output == self.output
        jpgs == {Jpg, <<"j", "p", "e", "g">>}
        tifs == {<<"t", "i", "f">>, <<"t", "i", "f", "f">>}
    IN  /\ SameIgnoringCase(extension(input), extension(output)) =>
              /\ ext_normal(input) = ext_normal(output)
              /\ pc # "start" => plan.kind = "ok"
        /\ \A p \in {input, output} :
              /\ (\E e \in jpgs : SameIgnoringCase(extension(p), e)) => ext_normal(p) = Jpg
              /\ (\E e \in tifs : SameIgnoringCase(extension(p), e)) =>
                     ext_normal(p) = <<"t", "i", "f">>
              /\ ext_normal(Normalized(p)) = ext_normal(p)

\* the planner accepted an input and an output whose extensions are two
\* spellings of the same letters
C12_Witness ==
    /\ pc = "validated"
    /\ plan.kind = "ok"
    /\ extension(self.paths[1]) = <<"J", "P", "G">>
    /\ extension(self.output) = Jpg


\* the positions of the step list that hold a label of S
Positions(steps, S) == {j \in 1..Len(steps) : steps[j] \in S}

IngredientSteps == {IngredientLabels[k] : k \in 1..Len(IngredientLabels)}

\* every step of S comes before every step of T
Before(steps, S, T) ==
    \A i \in Positions(steps, S), j \in Positions(steps, T) : i < j

\* the ingredients put first by the set_parent calls that succeeded
ParentsSet(st) ==
    Cardinality({j \in Positions(st.steps, {"set_parent", "set_source_parent"}) :
                    st.steps[j] # st.err})

\* ingredient `ing` is what the declared source `src` resolves to
ResolvedFrom(ing, src) ==
    IF src.kind = "Ingredient"
    THEN ing.origin = "inline" /\ ing.is_parent = src.is_parent
    ELSE /\ ing.origin # "inline"
         /\ Len(ing.path) >= Len(src.path)
         /\ SubSeq(ing.path, Len(ing.path) - Len(src.path) + 1, Len(ing.path)) = src.path

\* C16: within one sign_file call the steps of the assembly have a fixed
\* order.  The base path is applied to the manifest and to the signing
\* configuration before any ingredient is resolved; the declared ingredients
\* are attached in declaration order; the explicit parent is loaded only
\* after all of them; the implicit parent is inferred only after that; and
\* embed is called only when every earlier step succeeded: the first failing
\* step is the last step of the attempt.
C16_AssemblyOrder ==
    \A k \in 1..Len(attempts) :
        LET st == attempts[k].st
            steps == st.steps
            declared == env.json.ingredients
            resolved == Positions(steps, IngredientSteps)
            attached == Cardinality({j \in resolved : steps[j] # st.err})
            last == steps[Len(steps)]
        IN  /\ resolved # {} =>
                  /\ Before(steps, {"manifest_with_base_path", "sign_config_set_base_path"},
                            IngredientSteps)
                  /\ Positions(steps, {"manifest_with_base_path"}) # {}
                  /\ Positions(steps, {"sign_config_set_base_path"}) # {}
                  /\ st.manifest.base_path = base_path_of(self)
                  /\ st.sign_config.base_path = base_path_of(self)
            /\ \E n \in 0..Len(declared) :
                  /\ Cardinality(resolved) = n
                  /\ \A i \in 1..n :
                        /\ Positions(steps, {IngredientLabels[i]}) # {}
                        /\ i < n => Before(steps, {IngredientLabels[i]},
                                           {IngredientLabels[i + 1]})
            /\ Len(st.manifest.ingredients) = ParentsSet(st) + attached
            /\ \A i \in 1..attached :
                  ResolvedFrom(st.manifest.ingredients[ParentsSet(st) + i], declared[i])
            /\ \A label \in {"load_parent", "source_ingredient", "embed"} :
                  Positions(steps, {label}) # {} =>
                      /\ Cardinality(resolved) = Len(declared)
                      /\ Before(steps, IngredientSteps, {label})
            /\ Before(steps, {"load_parent", "set_parent"},
                      {"source_ingredient", "set_source_parent"})
            /\ Positions(steps, {"source_ingredient"}) # {} /\ self.parent # None =>
                  Positions(steps, {"set_parent"}) # {}
            /\ Positions(steps, {"embed"}) \subseteq {Len(steps)}
            /\ Positions(steps, {"embed"}) # {} /\ self.parent # None =>
                  Positions(steps, {"load_parent"}) # {}
            /\ st.err # "" =>
                  \/ last = st.err
                  \/ st.err = "embed_partial" /\ last = "embed"
            /\ st.err = "" => last = "embed"

\* two different declared ingredients and the explicit parent were attached
\* and the manifest was embedded
C16_Witness ==
    \E k \in 1..Len(attempts) :
        LET st == attempts[k].st
        IN  /\ Assembled(attempts[k])
            /\ st.err = ""
            /\ Len(env.json.ingredients) = 2
            /\ env.json.ingredients[1] # env.json.ingredients[2]
            /\ Positions(st.steps, {"load_parent"}) # {}
            /\ Len(st.manifest.ingredients) = 3


ExistingProbes(s, f) ==
    LET dest(i) == Append(s.output, s.paths[i][Len(s.paths[i])])
        variant(i) == Append(s.output, Comp(s.paths[i][Len(s.paths[i])].stem, C2paExt))
    IN  {<<i, "asset">> : i \in {j \in 1..Len(s.paths) : dest(j) \in DOMAIN f}}
            \cup {<<i, "sidecar">> :
                     i \in {j \in 1..Len(s.paths) : s.sidecar /\ variant(j) \in DOMAIN f}}

\* C19: when the planner fails with "N/M paths already exist", M is the
\* effective output count and N is the number of probes (one per input, and
\* one more per input for the sidecar variant when sidecar is enabled) whose
\* destination pre-exists, so that 1 <= N <= M.
C19_ExistingCount ==
    [][(pc = "start" /\ plan'.msg = "paths already exist") =>
          /\ plan'.kind = "err"
          /\ plan'.m = Len(self.paths) * (IF self.sidecar THEN 2 ELSE 1)
          /\ plan'.n = Cardinality(ExistingProbes(self, fs))
          /\ 1 <= plan'.n
          /\ plan'.n <= plan'.m]_vars

\* with sidecar, every probe of a single input found its destination
C19_Witness ==
    /\ plan.msg = "paths already exist"
    /\ Len(self.paths) = 1
    /\ self.sidecar
    /\ plan.n = 2
    /\ plan.m = 2

====
